---- MODULE Spec2Model ----
(***************************************************************************)
(* Liturgical calendar: event generation for one liturgical year, the      *)
(* mapping of a date to its liturgical year and reading set, and the       *)
(* resolution of a date to the pericope event and its readings.            *)
(* Dates are day numbers counted from 0000-03-01 (proleptic Gregorian).    *)
(***************************************************************************)
EXTENDS Integers, Sequences, FiniteSets, TLC

(* ------------------------------ bounds --------------------------------- *)

\* liturgical years for which generate_events is run step by step
GenMinYear == 1800
GenMaxYear == 2300

\* calendar years of the input dates given to main
InputMinYear == 2007
InputMaxYear == 2028

\* years for which compute_easter is evaluated on its own
EasterMaxYear == 2299

\* priorities offered to insert_event when it is exercised on its own
MaxPriority == 3

\* first year for which compute_easter is evaluated on its own (the
\* conventional floor of the Gregorian calendar)
GregorianFloor == 1583

(* ------------------- last index of each rule group's loop -------------- *)

AdventLast == 4
EpiphanyLast == 6
PreEasterLast == 9
\* the Easter loop one iteration short
EasterLastShort == 6 - 1
EasterLast == 6
TrinityLast == 27

(* ------------------------------- dates --------------------------------- *)

IsLeap(y) == (y % 4 = 0 /\ y % 100 # 0) \/ y % 400 = 0

DaysInMonth(y, m) ==
    IF m = 2 THEN (IF IsLeap(y) THEN 29 ELSE 28)
    ELSE IF m \in {4, 6, 9, 11} THEN 30 ELSE 31

\* NaiveDate::from_ymd: the day number of a valid civil date
from_ymd(y, m, d) ==
    LET yy  == IF m <= 2 THEN y - 1 ELSE y
        era == yy \div 400
        yoe == yy - era * 400
        mp  == IF m > 2 THEN m - 3 ELSE m + 9
        doy == (153 * mp + 2) \div 5 + d - 1
        doe == yoe * 365 + yoe \div 4 - yoe \div 100 + doy
    IN  era * 146097 + doe

\* weekday().num_days_from_sunday(): 0 = Sunday ... 6 = Saturday
\* (day 0, 0000-03-01, is a Wednesday)
num_days_from_sunday(date) == (date + 3) % 7

IsSunday(date) == num_days_from_sunday(date) = 0

(* ------------------------------ anchors -------------------------------- *)

first_sunday_of_advent(year) ==
    LET candidate == from_ymd(year, 11, 21)
        offset    == (7 - num_days_from_sunday(candidate)) % 7
    IN  candidate + offset

RECURSIVE first_sunday_on_or_after(_)
first_sunday_on_or_after(date) ==
    IF IsSunday(date) THEN date ELSE first_sunday_on_or_after(date + 1)

\* compute_easter without the correction term m
compute_easter_no_m(year) ==
    LET a == year % 19
        b == year \div 100
        c == year % 100
        d == b \div 4
        e == b % 4
        f == (b + 8) \div 25
        g == (b - f + 1) \div 3
        h == (19 * a + b - d - g + 15) % 30
        i == c \div 4
        k == c % 4
        l == (32 + 2 * e + 2 * i - h - k) % 7
        m == 0
        month == (h + l - 7 * m + 114) \div 31
        day   == ((h + l - 7 * m + 114) % 31) + 1
    IN  from_ymd(year, month, day)

\* Meeus/Jones/Butcher; every dividend is non-negative for year >= 0, so
\* the truncating / and % of i32 agree with \div and %
compute_easter(year) ==
    LET a == year % 19
        b == year \div 100
        c == year % 100
        d == b \div 4
        e == b % 4
        f == (b + 8) \div 25
        g == (b - f + 1) \div 3
        h == (19 * a + b - d - g + 15) % 30
        i == c \div 4
        k == c % 4
        l == (32 + 2 * e + 2 * i - h - k) % 7
        m == (a + 11 * h + 22 * l) \div 451
        month == (h + l - 7 * m + 114) \div 31
        day   == ((h + l - 7 * m + 114) % 31) + 1
    IN  from_ymd(year, month, day)

(* ------------------------------- events -------------------------------- *)

Event(label, date, altar_color, priority) ==
    [label |-> label, date |-> date, altar_color |-> altar_color,
     priority |-> priority]

EmptyMap == <<>>

\* insert_event without the [start, end) test
insert_event_no_range(map, ev, start, end) ==
    IF ev.date \in DOMAIN map
    THEN IF ev.priority > map[ev.date].priority
         THEN [map EXCEPT ![ev.date] = ev]
         ELSE map
    ELSE (ev.date :> ev) @@ map

\* insert_event replacing on an equal priority too
insert_event_ge(map, ev, start, end) ==
    IF ev.date >= start /\ ev.date < end
    THEN IF ev.date \in DOMAIN map
         THEN IF ev.priority >= map[ev.date].priority
              THEN [map EXCEPT ![ev.date] = ev]
              ELSE map
         ELSE (ev.date :> ev) @@ map
    ELSE map

\* insert_event without and_modify: the first event of a date stays
insert_event_keep(map, ev, start, end) ==
    IF ev.date >= start /\ ev.date < end
    THEN IF ev.date \in DOMAIN map
         THEN map
         ELSE (ev.date :> ev) @@ map
    ELSE map

\* the closure insert_event of generate_events
insert_event(map, ev, start, end) ==
    IF ev.date >= start /\ ev.date < end
    THEN IF ev.date \in DOMAIN map
         THEN IF ev.priority > map[ev.date].priority
              THEN [map EXCEPT ![ev.date] = ev]
              ELSE map
         ELSE (ev.date :> ev) @@ map
    ELSE map

Label(base, n) == IF n = 0 THEN base ELSE base \o " + " \o ToString(n)

advent_event(start, n) == Event(Label("advent", n), start + 7 * n, "purple", 1)

christmas_fixed(lit_year) == from_ymd(lit_year, 12, 25)
christmas_plus1(lit_year) == first_sunday_on_or_after(christmas_fixed(lit_year) + 1)
new_year_candidate(lit_year) == christmas_plus1(lit_year) + 7
new_year_threshold(lit_year) == from_ymd(lit_year + 1, 1, 6)

\* the vector christmas_events of (label, date) pairs
christmas_events_of(lit_year) ==
    LET base == << <<"christmas", christmas_fixed(lit_year)>>,
                   <<"christmas + 1", christmas_plus1(lit_year)>> >>
    IN  IF new_year_candidate(lit_year) >= new_year_threshold(lit_year)
        THEN Append(base, <<"new year", new_year_candidate(lit_year)>>)
        ELSE base

christmas_event(pair) == Event(pair[1], pair[2], "white", 2)

epiphany_start_of(lit_year) ==
    IF new_year_candidate(lit_year) < new_year_threshold(lit_year)
    THEN new_year_candidate(lit_year)
    ELSE first_sunday_on_or_after(from_ymd(lit_year + 1, 1, 6))

epiphany_event(es, n) ==
    Event(Label("epiphany", n), es + 7 * n,
          IF n = 0 THEN "white" ELSE "green", 3)

pre_easter_colors ==
    <<"green", "green", "white", "purple", "purple", "purple", "purple",
      "white", "white">>

\* pre_easter_colors is indexed from 0 in the source: [(9 - j)] is the
\* (10 - j)-th element
pre_easter_event(ea, j) ==
    Event("easter - " \o ToString(j), ea - 7 * j,
          pre_easter_colors[(9 - j) + 1], 4)

easter_event(ea, n) == Event(Label("easter", n), ea + 7 * n, "white", 5)

pentecost_of(ea) == ea + 49

pentecost_event(ea) == Event("pentecost", pentecost_of(ea), "red", 6)

trinity_start_of(ea) == pentecost_of(ea) + 7

trinity_event(ea, n) ==
    Event(Label("trinity", n), trinity_start_of(ea) + 7 * n,
          IF n = 0 THEN "white"
          ELSE IF n \in 1..4 THEN "green"
          ELSE IF n = 5 THEN "red" ELSE "green",
          7)

Min(S) == CHOOSE x \in S : \A y \in S : x <= y
Max(S) == CHOOSE x \in S : \A y \in S : x >= y

RECURSIVE SortDates(_)
SortDates(S) ==
    IF S = {} THEN <<>> ELSE <<Min(S)>> \o SortDates(S \ {Min(S)})

\* events_map.into_values().collect() followed by sort_by_key(|ev| ev.date)
sort_by_date(map) ==
    LET ds == SortDates(DOMAIN map) IN [k \in 1..Len(ds) |-> map[ds[k]]]

\* the candidates of the seven rule groups, in the order they are inserted
Candidates(lit_year) ==
    LET start == first_sunday_of_advent(lit_year)
        ce    == christmas_events_of(lit_year)
        es    == epiphany_start_of(lit_year)
        ea    == compute_easter(lit_year + 1)
    IN  [k \in 1..(AdventLast + 1) |-> advent_event(start, k - 1)]
        \o [k \in 1..Len(ce) |-> christmas_event(ce[k])]
        \o [k \in 1..(EpiphanyLast + 1) |-> epiphany_event(es, k - 1)]
        \o [k \in 1..PreEasterLast |-> pre_easter_event(ea, k)]
        \o [k \in 1..(EasterLast + 1) |-> easter_event(ea, k - 1)]
        \o <<pentecost_event(ea)>>
        \o [k \in 1..(TrinityLast + 1) |-> trinity_event(ea, k - 1)]

RECURSIVE InsertAll(_, _, _, _, _)
InsertAll(map, cands, k, start, end) ==
    IF k > Len(cands) THEN map
    ELSE LET next == insert_event(map, cands[k], start, end)
         IN  \* both branches go on with the same map: the comparison only
             \* makes the evaluation of each insertion strict
             IF next = map THEN InsertAll(map, cands, k + 1, start, end)
                           ELSE InsertAll(next, cands, k + 1, start, end)

generate_events(lit_year) ==
    sort_by_date(InsertAll(EmptyMap, Candidates(lit_year), 1,
                           first_sunday_of_advent(lit_year),
                           first_sunday_of_advent(lit_year + 1)))

(* ------------------------ year and set resolution ---------------------- *)

\* Datelike::year of a day number
year_of(date) ==
    LET era == date \div 146097
        doe == date - era * 146097
        yoe == (doe - doe \div 1460 + doe \div 36524 - doe \div 146096) \div 365
        doy == doe - (365 * yoe + yoe \div 4 - yoe \div 100)
        mp  == (5 * doy + 2) \div 153
        m   == IF mp < 10 THEN mp + 3 ELSE mp - 9
    IN  yoe + era * 400 + (IF m <= 2 THEN 1 ELSE 0)

\* compute_liturgical_year with a strict comparison
compute_liturgical_year_gt(input) ==
    LET candidate == first_sunday_of_advent(year_of(input))
    IN  IF input > candidate THEN year_of(input) ELSE year_of(input) - 1

compute_liturgical_year(input) ==
    LET candidate == first_sunday_of_advent(year_of(input))
    IN  IF input >= candidate THEN year_of(input) ELSE year_of(input) - 1

\* rem_euclid: % is the non-negative remainder
compute_set(lit_year) == ((lit_year - 2024) % 3) + 1

(* ------------------------------ readings ------------------------------- *)

CustomKeys == { <<"epiphany + 5", 1>>, <<"easter - 9", 1>> }

custom_readings ==
    [key \in CustomKeys |->
        IF key[1] = "epiphany + 5"
        THEN <<"Jer 17:5-10", "Col 3:12-17", "Mat 13:31-35", "Mat 13:24-30">>
        ELSE <<"Jer 1:4-10", "1 Cor:09:24-10:05", "Mat 19:27-30", "Mat 20:1-16">>]

Placeholder(field, label, n) ==
    field \o " reading for " \o label \o " (Set " \o ToString(n) \o ")"

\* the four placeholder lines, the Gospel one set ahead
default_readings(label, set) ==
    LET gospel_set == IF set = 3 THEN 1 ELSE set + 1
    IN  << Placeholder("Old Testament", label, set),
           Placeholder("Lection", label, set),
           Placeholder("Gospel", label, gospel_set),
           Placeholder("Preaching", label, set) >>

\* readings printed when an event matches the input date exactly
exact_readings(label, set) ==
    IF <<label, set>> \in DOMAIN custom_readings
    THEN custom_readings[<<label, set>>]
    ELSE default_readings(label, set)

\* readings printed when the most recent prior event is used
prior_readings(label, set) == default_readings(label, set)

(* --------------------------- date resolution --------------------------- *)

\* events.iter().find(|ev| ev.date == input_date): index of the first match, 0 if none
find_exact(evs, input) ==
    LET S == {k \in 1..Len(evs) : evs[k].date = input}
    IN  IF S = {} THEN 0 ELSE Min(S)

\* find_prior without rev(): index of the first match
find_prior_first(evs, input) ==
    LET S == {k \in 1..Len(evs) : evs[k].date <= input}
    IN  IF S = {} THEN 0 ELSE Min(S)

\* events.iter().rev().find(|ev| ev.date <= input_date): index of the last match, 0 if none
find_prior(evs, input) ==
    LET S == {k \in 1..Len(evs) : evs[k].date <= input}
    IN  IF S = {} THEN 0 ELSE Max(S)

Output(variant, input, e, ly, st, rd) ==
    [variant |-> variant, date |-> input, event_date |-> e.date,
     pericope |-> e.label, altar_color |-> e.altar_color,
     lit_year |-> ly, set |-> st, readings |-> rd]

NoEvent == Event("", 0, "", 0)

\* what main prints once the events are generated
resolve(evs, input, ly, st) ==
    LET x == find_exact(evs, input)
        p == find_prior(evs, input)
    IN  IF x # 0
        THEN Output("exact", input, evs[x], ly, st,
                    exact_readings(evs[x].label, st))
        ELSE IF p # 0
        THEN Output("inexact", input, evs[p], ly, st,
                    prior_readings(evs[p].label, st))
        ELSE Output("not_found", input, NoEvent, ly, st, <<>>)

(* ------------------------------- state --------------------------------- *)

VARIABLES
    pc,                \* position in the running function
    args,              \* the dd/mm/yyyy argument, as its three numbers
    input_date,        \* the parsed input date
    lit_year,          \* liturgical year
    set,               \* reading set
    start, end,        \* bounds of the liturgical year in generate_events
    events_map,        \* date -> Event
    i,                 \* loop index in generate_events
    christmas_events,  \* the vector of (label, date) pairs
    epiphany_start,
    easter,
    events,            \* the sorted vector returned by generate_events
    result,            \* what main prints
    ev,                \* the candidate last given to insert_event
    year               \* argument of compute_easter

vars == <<pc, args, input_date, lit_year, set, start, end, events_map, i,
          christmas_events, epiphany_start, easter, events, result, ev, year>>

NoArgs == [d |-> 0, m |-> 0, y |-> 0]
NoResult == Output("none", 0, NoEvent, 0, 0, <<>>)

mainVars == <<args, input_date, set, result>>
genLocals == <<start, end, events_map, i, christmas_events, epiphany_start, easter>>

(* ---------------- generate_events, one loop iteration a step ----------- *)

InitGen ==
    /\ lit_year \in GenMinYear..GenMaxYear
    /\ start = first_sunday_of_advent(lit_year)
    /\ end = first_sunday_of_advent(lit_year + 1)
    /\ events_map = EmptyMap
    /\ pc = "advent"
    /\ i = 0
    /\ christmas_events = <<>>
    /\ epiphany_start = 0
    /\ easter = 0
    /\ events = <<>>
    /\ ev = NoEvent
    /\ args = NoArgs /\ input_date = 0 /\ set = 0 /\ result = NoResult
    /\ year = 0

\* insert one candidate and advance the loop; leave it for `next` after `last`
LoopStep(cand, last, next, first) ==
    /\ ev' = cand
    /\ events_map' = insert_event(events_map, cand, start, end)
    /\ IF i < last THEN pc' = pc /\ i' = i + 1
                   ELSE pc' = next /\ i' = first

AdventStep ==
    /\ pc = "advent"
    /\ LoopStep(advent_event(start, i), AdventLast, "christmas_init", 0)
    /\ UNCHANGED <<lit_year, start, end, christmas_events, epiphany_start,
                   easter, events, year>>
    /\ UNCHANGED mainVars

ChristmasInit ==
    /\ pc = "christmas_init"
    /\ christmas_events' = christmas_events_of(lit_year)
    /\ i' = 1
    /\ pc' = "christmas"
    /\ UNCHANGED <<lit_year, start, end, events_map, epiphany_start, easter,
                   events, ev, year>>
    /\ UNCHANGED mainVars

ChristmasStep ==
    /\ pc = "christmas"
    /\ LoopStep(christmas_event(christmas_events[i]), Len(christmas_events),
                "epiphany_init", 0)
    /\ UNCHANGED <<lit_year, start, end, christmas_events, epiphany_start,
                   easter, events, year>>
    /\ UNCHANGED mainVars

EpiphanyInit ==
    /\ pc = "epiphany_init"
    /\ epiphany_start' = epiphany_start_of(lit_year)
    /\ i' = 0
    /\ pc' = "epiphany"
    /\ UNCHANGED <<lit_year, start, end, events_map, christmas_events, easter,
                   events, ev, year>>
    /\ UNCHANGED mainVars

EpiphanyStep ==
    /\ pc = "epiphany"
    /\ LoopStep(epiphany_event(epiphany_start, i), EpiphanyLast,
                "easter_init", 0)
    /\ UNCHANGED <<lit_year, start, end, christmas_events, epiphany_start,
                   easter, events, year>>
    /\ UNCHANGED mainVars

EasterInit ==
    /\ pc = "easter_init"
    /\ easter' = compute_easter(lit_year + 1)
    /\ i' = 1
    /\ pc' = "pre_easter"
    /\ UNCHANGED <<lit_year, start, end, events_map, christmas_events,
                   epiphany_start, events, ev, year>>
    /\ UNCHANGED mainVars

PreEasterStep ==
    /\ pc = "pre_easter"
    /\ LoopStep(pre_easter_event(easter, i), PreEasterLast, "easter", 0)
    /\ UNCHANGED <<lit_year, start, end, christmas_events, epiphany_start,
                   easter, events, year>>
    /\ UNCHANGED mainVars

EasterStep ==
    /\ pc = "easter"
    /\ LoopStep(easter_event(easter, i), EasterLast, "pentecost", 0)
    /\ UNCHANGED <<lit_year, start, end, christmas_events, epiphany_start,
                   easter, events, year>>
    /\ UNCHANGED mainVars

PentecostStep ==
    /\ pc = "pentecost"
    /\ ev' = pentecost_event(easter)
    /\ events_map' = insert_event(events_map, pentecost_event(easter), start, end)
    /\ i' = 0
    /\ pc' = "trinity"
    /\ UNCHANGED <<lit_year, start, end, christmas_events, epiphany_start,
                   easter, events, year>>
    /\ UNCHANGED mainVars

TrinityStep ==
    /\ pc = "trinity"
    /\ LoopStep(trinity_event(easter, i), TrinityLast, "sort", 0)
    /\ UNCHANGED <<lit_year, start, end, christmas_events, epiphany_start,
                   easter, events, year>>
    /\ UNCHANGED mainVars

SortEvents ==
    /\ pc = "sort"
    /\ events' = sort_by_date(events_map)
    /\ pc' = "returned"
    /\ UNCHANGED <<lit_year, ev, year>>
    /\ UNCHANGED genLocals
    /\ UNCHANGED mainVars

NextGen ==
    \/ AdventStep
    \/ ChristmasInit
    \/ ChristmasStep
    \/ EpiphanyInit
    \/ EpiphanyStep
    \/ EasterInit
    \/ PreEasterStep
    \/ EasterStep
    \/ PentecostStep
    \/ TrinityStep
    \/ SortEvents

SpecGen == InitGen /\ [][NextGen]_vars

(* ------------------------------- main ---------------------------------- *)

InitMain ==
    /\ args \in [d : 1..31, m : 1..12, y : InputMinYear..InputMaxYear]
    /\ pc = "parse"
    /\ input_date = 0 /\ lit_year = 0 /\ set = 0
    /\ events = <<>>
    /\ result = NoResult
    /\ start = 0 /\ end = 0 /\ events_map = EmptyMap /\ i = 0
    /\ christmas_events = <<>> /\ epiphany_start = 0 /\ easter = 0
    /\ ev = NoEvent
    /\ year = 0

\* NaiveDate::parse_from_str succeeds on a date of the calendar
ParseOk ==
    /\ pc = "parse"
    /\ args.d <= DaysInMonth(args.y, args.m)
    /\ input_date' = from_ymd(args.y, args.m, args.d)
    /\ pc' = "year"
    /\ UNCHANGED <<args, lit_year, set, events, result, ev, year>>
    /\ UNCHANGED genLocals

\* ... and fails otherwise: the process exits with status 1
ParseError ==
    /\ pc = "parse"
    /\ args.d > DaysInMonth(args.y, args.m)
    /\ pc' = "exit_1"
    /\ UNCHANGED <<args, input_date, lit_year, set, events, result, ev, year>>
    /\ UNCHANGED genLocals

YearAndSet ==
    /\ pc = "year"
    /\ lit_year' = compute_liturgical_year(input_date)
    /\ set' = compute_set(compute_liturgical_year(input_date))
    /\ pc' = "generate"
    /\ UNCHANGED <<args, input_date, events, result, ev, year>>
    /\ UNCHANGED genLocals

Generate ==
    /\ pc = "generate"
    /\ events' = generate_events(lit_year)
    /\ pc' = "resolve"
    /\ UNCHANGED <<args, input_date, lit_year, set, result, ev, year>>
    /\ UNCHANGED genLocals

Resolve ==
    /\ pc = "resolve"
    /\ result' = resolve(events, input_date, lit_year, set)
    /\ pc' = "done"
    /\ UNCHANGED <<args, input_date, lit_year, set, events, ev, year>>
    /\ UNCHANGED genLocals

NextMain ==
    \/ ParseOk
    \/ ParseError
    \/ YearAndSet
    \/ Generate
    \/ Resolve

SpecMain == InitMain /\ [][NextMain]_vars

(* ---------------------- insert_event on its own ------------------------ *)

InsertYear == 2024

InitInsert ==
    /\ lit_year = InsertYear
    /\ start = first_sunday_of_advent(InsertYear)
    /\ end = first_sunday_of_advent(InsertYear + 1)
    /\ events_map = EmptyMap
    /\ ev = NoEvent
    /\ pc = "insert"
    /\ i = 0 /\ christmas_events = <<>> /\ epiphany_start = 0 /\ easter = 0
    /\ events = <<>>
    /\ args = NoArgs /\ input_date = 0 /\ set = 0 /\ result = NoResult
    /\ year = 0

InsertDates == {start - 1, start, start + 7, end - 1, end}

InsertCandidate ==
    /\ pc = "insert"
    /\ \E label \in {"advent", "christmas"}, date \in InsertDates,
          priority \in 1..MaxPriority :
          /\ ev' = Event(label, date, "white", priority)
          /\ events_map' = insert_event(events_map,
                                        Event(label, date, "white", priority),
                                        start, end)
    /\ UNCHANGED <<pc, lit_year, start, end, i, christmas_events,
                   epiphany_start, easter, events, year>>
    /\ UNCHANGED mainVars

NextInsert == InsertCandidate

SpecInsert == InitInsert /\ [][NextInsert]_vars

(* --------------------- compute_easter on its own ----------------------- *)

InitEaster ==
    /\ year \in GregorianFloor..EasterMaxYear
    /\ easter = 0
    /\ pc = "easter_call"
    /\ lit_year = 0 /\ start = 0 /\ end = 0 /\ events_map = EmptyMap
    /\ i = 0 /\ christmas_events = <<>> /\ epiphany_start = 0
    /\ events = <<>> /\ ev = NoEvent
    /\ args = NoArgs /\ input_date = 0 /\ set = 0 /\ result = NoResult

ComputeEaster ==
    /\ pc = "easter_call"
    /\ easter' = compute_easter(year)
    /\ pc' = "easter_returned"
    /\ UNCHANGED <<lit_year, start, end, events_map, i, christmas_events,
                   epiphany_start, events, ev, year>>
    /\ UNCHANGED mainVars

NextEaster == ComputeEaster

SpecEaster == InitEaster /\ [][NextEaster]_vars

(* ------------------------------ properties ----------------------------- *)

Returned == pc = "returned"
Done == pc = "done"

\* C1: the list returned by generate_events(Y) starts with "advent" on
\* first_sunday_of_advent(Y), has strictly increasing dates, and every date
\* lies in [first_sunday_of_advent(Y), first_sunday_of_advent(Y+1)), so the
\* span is less than 365+7 days.
C1_SortedCovering ==
    Returned =>
        /\ Len(events) > 0
        /\ events[1].label = "advent"
        /\ events[1].date = first_sunday_of_advent(lit_year)
        /\ \A k \in 1..(Len(events) - 1) : events[k].date < events[k + 1].date
        /\ \A k \in 1..Len(events) :
              /\ first_sunday_of_advent(lit_year) <= events[k].date
              /\ events[k].date < first_sunday_of_advent(lit_year + 1)
        /\ events[Len(events)].date - events[1].date < 365 + 7

\* a year is returned in which Christmas Day displaced "advent + 4"
C1_Witness ==
    /\ Returned
    /\ events[1].label = "advent"
    /\ \E k \in 1..Len(events) :
          events[k].label = "christmas" /\ events[k].date = events[1].date + 28

IsEventDate(d) == \E k \in 1..Len(events) : events[k].date = d

\* C2: when the input date is no event's date, the result is the event with
\* the greatest date <= input (label, color, its own date) and is marked
\* inexact; when the input date is an event's date, that event is reported
\* and the result is exact.
C2_NearestPrior ==
    Done =>
        IF IsEventDate(input_date)
        THEN /\ result.variant = "exact"
             /\ \E k \in 1..Len(events) :
                   /\ events[k].date = input_date
                   /\ result.pericope = events[k].label
                   /\ result.altar_color = events[k].altar_color
        ELSE /\ result.variant = "inexact"
             /\ \E k \in 1..Len(events) :
                   /\ events[k].date <= input_date
                   /\ \A j \in 1..Len(events) :
                         events[j].date <= input_date
                             => events[j].date <= events[k].date
                   /\ result.pericope = events[k].label
                   /\ result.altar_color = events[k].altar_color
                   /\ result.event_date = events[k].date

\* a weekday after Christmas Day, itself not a Sunday, resolves to "christmas"
C2_Witness ==
    /\ Done
    /\ ~IsEventDate(input_date)
    /\ result.variant = "inexact"
    /\ result.pericope = "christmas"
    /\ result.event_date < input_date

C4_CustomReadings ==
    (Done /\ result.variant \in {"exact", "inexact"}) =>
        IF <<result.pericope, result.set>> \in DOMAIN custom_readings
        THEN result.readings = custom_readings[<<result.pericope, result.set>>]
        ELSE result.readings = default_readings(result.pericope, result.set)

EpiphanyStarted ==
    pc \in {"epiphany", "easter_init", "pre_easter", "easter", "pentecost",
            "trinity", "sort", "returned"}

NewYearEmitted ==
    \E k \in 1..Len(christmas_events) : christmas_events[k][1] = "new year"

EpiphanyAtCandidate == epiphany_start = new_year_candidate(lit_year)

\* C5: exactly one of: a "new year" event is emitted by the Christmas group;
\* the Epiphany series starts at the new-year candidate date.
C5_ExactlyOne ==
    EpiphanyStarted => (NewYearEmitted /\ ~EpiphanyAtCandidate)
                       \/ (~NewYearEmitted /\ EpiphanyAtCandidate)

\* C6: the input date lies in [first_sunday_of_advent(L),
\* first_sunday_of_advent(L+1)) for L its liturgical year, the generated
\* events contain one dated on or before it, and resolution never reports
\* that no event was found.
C6_AlwaysFound ==
    /\ pc \in {"generate", "resolve", "done"} =>
          /\ first_sunday_of_advent(lit_year) <= input_date
          /\ input_date < first_sunday_of_advent(lit_year + 1)
    /\ pc \in {"resolve", "done"} =>
          \E k \in 1..Len(events) : events[k].date <= input_date
    /\ Done => result.variant # "not_found"

\* the input date is the First Sunday of Advent itself, the first day of
\* its liturgical year
C6_Witness ==
    /\ Done
    /\ input_date = first_sunday_of_advent(args.y)
    /\ lit_year = args.y
    /\ result.pericope = "advent"

\* C7: compute_easter(Y), Y >= 1583, is a Sunday between March 22 and
\* April 25 of Y inclusive.
C7_EasterRange ==
    pc = "easter_returned" =>
        /\ from_ymd(year, 3, 22) <= easter
        /\ easter <= from_ymd(year, 4, 25)
        /\ IsSunday(easter)

\* the latest possible Easter has been computed
C7_Witness ==
    /\ pc = "easter_returned"
    /\ easter = from_ymd(year, 4, 25)

Collides == ev'.date \in DOMAIN events_map

\* C8 as stated: on a collision the candidate replaces the stored event when
\* its priority is higher or equal, is dropped when lower; a candidate
\* outside [start, end) leaves the map unchanged.
C8_LaterWinsTies ==
    [][ /\ Collides /\ ev'.priority > events_map[ev'.date].priority
            => events_map' = [events_map EXCEPT ![ev'.date] = ev']
        /\ Collides /\ ev'.priority < events_map[ev'.date].priority
            => events_map' = events_map
        /\ Collides /\ ev'.priority = events_map[ev'.date].priority
            => events_map' = [events_map EXCEPT ![ev'.date] = ev']
        /\ (ev'.date < start \/ ev'.date >= end)
            => events_map' = events_map ]_vars

\* C8 amended: on a collision the candidate replaces the stored event only
\* when its priority is strictly higher; with a lower or an equal priority
\* the stored (earlier inserted) event is kept; a candidate outside
\* [start, end) leaves the map unchanged.
C8_StoredWinsTies ==
    [][ /\ Collides /\ ev'.priority > events_map[ev'.date].priority
            => events_map' = [events_map EXCEPT ![ev'.date] = ev']
        /\ Collides /\ ev'.priority <= events_map[ev'.date].priority
            => events_map' = events_map
        /\ (ev'.date < start \/ ev'.date >= end)
            => events_map' = events_map ]_vars

\* the last candidate collided with a stored event of the same priority and
\* another label, and the stored one is still there
C8_Witness ==
    /\ pc = "insert"
    /\ ev.date \in DOMAIN events_map
    /\ events_map[ev.date].priority = ev.priority
    /\ events_map[ev.date].label # ev.label

\* C9: the Epiphany series always starts at the new-year candidate date, the
\* "epiphany" event takes that date in the map, and the returned list has
\* no event labeled "new year".
C9_NewYearNeverSurvives ==
    /\ EpiphanyStarted => EpiphanyAtCandidate
    /\ (EpiphanyStarted /\ ~(pc = "epiphany" /\ i = 0)) =>
          /\ new_year_candidate(lit_year) \in DOMAIN events_map
          /\ events_map[new_year_candidate(lit_year)].label = "epiphany"
    /\ Returned => \A k \in 1..Len(events) : events[k].label # "new year"

\* a year is returned for which "new year" was among the Christmas candidates
C9_Witness ==
    /\ Returned
    /\ NewYearEmitted
    /\ \A k \in 1..Len(events) : events[k].label # "new year"

\* C10: every Sunday of the liturgical year is the date of a generated event,
\* and the event chosen for an input date is at most 6 days before it.
C10_EverySunday ==
    /\ pc \in {"resolve", "done"} =>
          \A d \in first_sunday_of_advent(lit_year)
                    ..(first_sunday_of_advent(lit_year + 1) - 1) :
              IsSunday(d) => IsEventDate(d)
    /\ Done =>
          /\ result.variant \in {"exact", "inexact"}
          /\ input_date - result.event_date \in 0..6

\* a Saturday resolves to the event of the Sunday six days before
C10_Witness ==
    /\ Done
    /\ result.variant = "inexact"
    /\ input_date - result.event_date = 6
    /\ IsSunday(result.event_date)

====
